---- MODULE Spec2Model ----
(***************************************************************************)
(* A model of crispr_primer.py: the candidate qualifier                    *)
(* (check_primer3_result and the sequence utilities it calls), the search  *)
(* window controller (get_top_primers) with its two external tools, and    *)
(* the batch loop of main.                                                 *)
(*                                                                         *)
(* Python strings are TLA+ strings (sequences of characters, 1-based).     *)
(* A Python call that may raise is an operator returning a record whose    *)
(* field exc names the exception ("" when it returns normally).            *)
(* Melting temperatures are kept in tenths of a degree.                    *)
(***************************************************************************)
EXTENDS Integers, Sequences, FiniteSets, TLC

\* ------------------------------------------------------------ constants
IDEAL_TM_MIN == 55
IDEAL_TM_MAX == 65
IDEAL_PRIMER_LEN_MIN == 18
IDEAL_PRIMER_LEN_MAX == 25
IDEAL_AMPLICON_GC_MIN == 30
IDEAL_AMPLICON_GC_MAX == 75
IDEAL_HOMOPOLY_MAX == 4
ACCEPTABLE_AMPLICON_GC_MIN == 25
ACCEPTABLE_AMPLICON_GC_MAX == 75
ACCEPTABLE_HOMOPOLY_MAX == 5
LEFT_TAG == "CTACACGACGCTCTTCCGATCT"
RIGHT_TAG == "AGACGTGTGCTCTTCCGATCT"
LOW_COMPLEXITY_CHECK_N == 10
MAX_ISPCR_SEARCH_SIZE == 1000
CODE_IDEAL == 1
CODE_ACCEPTABLE == 2
\* Python's None, as a value distinct from both codes.
CODE_NQ == 0

\* ------------------------------------------------- Python string helpers
Min(a, b) == IF a < b THEN a ELSE b
Max(a, b) == IF a > b THEN a ELSE b

\* s[i] for a 0-based Python index i that is in range.
CharAt(s, i) == SubSeq(s, i + 1, i + 1)

\* s[a:b] for non-negative a, b: Python clamps both to len(s).
Slice(s, a, b) == SubSeq(s, Min(a, Len(s)) + 1, Min(b, Len(s)))

\* s[-n:] for n > 0: the last n characters, all of s when it is shorter.
LastN(s, n) == SubSeq(s, Max(Len(s) - n, 0) + 1, Len(s))

\* s[:n]
FirstN(s, n) == SubSeq(s, 1, Min(n, Len(s)))

\* s[::-1]
RECURSIVE Reverse(_)
Reverse(s) == IF Len(s) = 0 THEN "" ELSE Reverse(Tail(s)) \o Head(s)

LowerToUpper == [c \in {"a", "c", "g", "t", "n"} |->
                   CASE c = "a" -> "A" [] c = "c" -> "C" [] c = "g" -> "G"
                     [] c = "t" -> "T" [] c = "n" -> "N"]

\* c.islower() for one character
IsLower(c) == c \in DOMAIN LowerToUpper

UpperChar(c) == IF IsLower(c) THEN LowerToUpper[c] ELSE c

\* s.upper()
RECURSIVE Upper(_)
Upper(s) == IF Len(s) = 0 THEN "" ELSE UpperChar(Head(s)) \o Upper(Tail(s))

\* Python's `sub in s` for strings: sub occurs as a contiguous substring
\* (the empty string occurs in every string).
Contains(s, sub) ==
    \E i \in 0..(Len(s) - Len(sub)) : SubSeq(s, i + 1, i + Len(sub)) = sub

\* -------------------------------------------------- sequence utilities
seq_map == [c \in {"A", "T", "C", "G"} |->
              CASE c = "A" -> "T" [] c = "T" -> "A" [] c = "C" -> "G" [] c = "G" -> "C"]

\* complementary_sequence: seq_map[c] raises KeyError on a character that
\* is not A, C, G or T after upper().
RECURSIVE ComplementLoop(_)
ComplementLoop(seq) == IF Len(seq) = 0 THEN ""
                       ELSE seq_map[Head(seq)] \o ComplementLoop(Tail(seq))

complementary_sequence(seq) ==
    LET up == Upper(seq)
    IN  IF \E i \in 0..(Len(up) - 1) : CharAt(up, i) \notin DOMAIN seq_map
        THEN [exc |-> "KeyError", val |-> ""]
        ELSE [exc |-> "", val |-> ComplementLoop(up)]

\* The loop of get_poly_max from index i on, with the running state
\* (current_bp, cnt, poly_max); the final comparison follows the loop.
RECURSIVE PolyLoop(_, _, _, _, _)
PolyLoop(sequence, i, current_bp, cnt, poly_max) ==
    IF i >= Len(sequence)
    THEN IF cnt > poly_max THEN cnt ELSE poly_max
    ELSE IF CharAt(sequence, i) = current_bp
         THEN PolyLoop(sequence, i + 1, current_bp, cnt + 1, poly_max)
         ELSE PolyLoop(sequence, i + 1, CharAt(sequence, i), 1,
                       IF cnt > poly_max THEN cnt ELSE poly_max)

\* get_poly_max: sequence[0] raises IndexError on the empty string.
get_poly_max(sequence) ==
    LET up == Upper(sequence)
    IN  IF Len(up) = 0 THEN [exc |-> "IndexError", val |-> 0]
        ELSE [exc |-> "", val |-> PolyLoop(up, 1, CharAt(up, 0), 1, 0)]

\* get_gc_pct: p / n * 100 as the exact fraction 100*p / n; float(len) = 0
\* raises ZeroDivisionError.
get_gc_pct(sequence) ==
    LET up == Upper(sequence)
        p  == Cardinality({i \in 0..(Len(up) - 1) : CharAt(up, i) \in {"G", "C"}})
    IN  IF Len(sequence) = 0 THEN [exc |-> "ZeroDivisionError", num |-> 0, den |-> 1]
        ELSE [exc |-> "", num |-> 100 * p, den |-> Len(sequence)]

\* pct < bound and pct > bound for the fraction pct = num / den, den > 0.
PctLess(pct, bound) == pct.num < bound * pct.den
PctGreater(pct, bound) == pct.num > bound * pct.den

\* ------------------------------------------------ check_primer3_result
\* parsed.get(key, default)
Get(parsed, key, default) == IF key \in DOMAIN parsed THEN parsed[key] ELSE default

\* A rule's outcome: "pass", "downgrade" (ret_code = CODE_ACCEPTABLE and go
\* on), "nq" (return CODE_NQ) or the name of the exception it raises.
RuleOutcomes == {"pass", "downgrade", "nq", "KeyError", "ZeroDivisionError", "IndexError"}

\* A specificity rule that rejects only a candidate without any match.
RuleSpecificityNoMatchOnly(parsed) ==
    IF Get(parsed, "ispcr_count", 0) < 1 THEN "nq" ELSE "pass"

\* Check specificity: ispcr_count != 1 returns CODE_NQ.
RuleSpecificity(parsed) ==
    IF Get(parsed, "ispcr_count", 0) # 1 THEN "nq" ELSE "pass"

\* The entry appended to ispcr_return when the specificity rule rejects.
RejectedEntry(parsed) ==
    IF Get(parsed, "ispcr_count", 0) # 1
    THEN << <<Get(parsed, "ispcr_count", 0), parsed.left_primer, parsed.right_primer>> >>
    ELSE << >>

\* A complexity rule that looks at one character less of each primer.
RuleComplexityOneLess(parsed) ==
    LET left_3end  == LastN(parsed.left_primer, LOW_COMPLEXITY_CHECK_N - 1)
        right_3end == LastN(parsed.right_primer, LOW_COMPLEXITY_CHECK_N - 1)
        both       == left_3end \o right_3end
    IN  IF \E i \in 0..(Len(both) - 1) : IsLower(CharAt(both, i))
        THEN "nq" ELSE "pass"

\* Check complexity: a lowercase character among the last
\* LOW_COMPLEXITY_CHECK_N characters of either primer returns CODE_NQ.
RuleComplexity(parsed) ==
    LET left_3end  == LastN(parsed.left_primer, LOW_COMPLEXITY_CHECK_N)
        right_3end == LastN(parsed.right_primer, LOW_COMPLEXITY_CHECK_N)
        both       == left_3end \o right_3end
    IN  IF \E i \in 0..(Len(both) - 1) : IsLower(CharAt(both, i))
        THEN "nq" ELSE "pass"

last_4_left_com(parsed) == complementary_sequence(LastN(parsed.left_primer, 4))
last_4_right_com(parsed) == complementary_sequence(FirstN(Reverse(parsed.right_primer), 4))

\* Check self-binding primers, against the partner and against itself.
\* Both complements are computed first, and either may raise KeyError.
RuleSelfBinding(parsed) ==
    LET l4 == last_4_left_com(parsed)
        r4 == last_4_right_com(parsed)
        left_primer  == parsed.left_primer
        right_primer == parsed.right_primer
    IN  IF l4.exc # "" THEN l4.exc
        ELSE IF r4.exc # "" THEN r4.exc
        ELSE IF Contains(Upper(Reverse(right_primer)), l4.val) THEN "nq"
        ELSE IF Contains(Upper(left_primer), r4.val) THEN "nq"
        ELSE IF Contains(Upper(left_primer), l4.val) THEN "nq"
        ELSE IF Contains(Upper(Reverse(right_primer)), r4.val) THEN "nq"
        ELSE "pass"

\* A tag rule that reads the right tag and the right primer forward.
RuleTagsForward(parsed) ==
    LET l4 == last_4_left_com(parsed)
        r4 == last_4_right_com(parsed)
    IN  IF Contains(Upper(RIGHT_TAG \o parsed.right_primer), l4.val) THEN "nq"
        ELSE IF Contains(Upper(LEFT_TAG \o parsed.left_primer), r4.val) THEN "nq"
        ELSE "pass"

\* Check self-binding with tags (reached only when both complements exist).
RuleTags(parsed) ==
    LET l4 == last_4_left_com(parsed)
        r4 == last_4_right_com(parsed)
    IN  IF Contains(Upper(Reverse(RIGHT_TAG \o parsed.right_primer)), l4.val) THEN "nq"
        ELSE IF Contains(Upper(LEFT_TAG \o parsed.left_primer), r4.val) THEN "nq"
        ELSE "pass"

\* Check amplicon gc.
RuleAmpliconGc(parsed) ==
    LET amplicon_gc_pct == get_gc_pct(parsed.product)
    IN  IF amplicon_gc_pct.exc # "" THEN amplicon_gc_pct.exc
        ELSE IF \/ PctLess(amplicon_gc_pct, ACCEPTABLE_AMPLICON_GC_MIN)
                \/ PctGreater(amplicon_gc_pct, ACCEPTABLE_AMPLICON_GC_MAX)
        THEN "nq"
        ELSE IF \/ PctLess(amplicon_gc_pct, IDEAL_AMPLICON_GC_MIN)
                \/ PctGreater(amplicon_gc_pct, IDEAL_AMPLICON_GC_MAX)
        THEN "downgrade"
        ELSE "pass"

\* Check max poly.
RulePolyMax(parsed) ==
    LET l == get_poly_max(parsed.left_primer)
        r == get_poly_max(parsed.right_primer)
        poly_max == Max(l.val, r.val)
    IN  IF l.exc # "" THEN l.exc
        ELSE IF r.exc # "" THEN r.exc
        ELSE IF poly_max > ACCEPTABLE_HOMOPOLY_MAX THEN "nq"
        ELSE IF poly_max > IDEAL_HOMOPOLY_MAX THEN "downgrade"
        ELSE "pass"

\* A melting temperature rule that also downgrades at the two limits.
RuleTmOpenInterval(parsed) ==
    IF \/ parsed.left_tm <= IDEAL_TM_MIN * 10 \/ parsed.left_tm >= IDEAL_TM_MAX * 10
       \/ parsed.right_tm <= IDEAL_TM_MIN * 10 \/ parsed.right_tm >= IDEAL_TM_MAX * 10
    THEN "downgrade" ELSE "pass"

\* Check melting temperature (left_tm, right_tm in tenths of a degree).
RuleTm(parsed) ==
    IF \/ parsed.left_tm < IDEAL_TM_MIN * 10 \/ parsed.left_tm > IDEAL_TM_MAX * 10
       \/ parsed.right_tm < IDEAL_TM_MIN * 10 \/ parsed.right_tm > IDEAL_TM_MAX * 10
    THEN "downgrade" ELSE "pass"

\* A size rule that disqualifies.
RuleSizeDisqualifies(parsed) ==
    LET left_size  == Len(parsed.left_primer)
        right_size == Len(parsed.right_primer)
    IN  IF \/ left_size < IDEAL_PRIMER_LEN_MIN \/ left_size > IDEAL_PRIMER_LEN_MAX
           \/ right_size < IDEAL_PRIMER_LEN_MIN \/ right_size > IDEAL_PRIMER_LEN_MAX
        THEN "nq" ELSE "pass"

\* Check primer size.
RuleSize(parsed) ==
    LET left_size  == Len(parsed.left_primer)
        right_size == Len(parsed.right_primer)
    IN  IF \/ left_size < IDEAL_PRIMER_LEN_MIN \/ left_size > IDEAL_PRIMER_LEN_MAX
           \/ right_size < IDEAL_PRIMER_LEN_MIN \/ right_size > IDEAL_PRIMER_LEN_MAX
        THEN "downgrade" ELSE "pass"

\* The rules in the order of the function body.
Rule(k, parsed) ==
    CASE k = 1 -> RuleSpecificity(parsed)
      [] k = 2 -> RuleComplexity(parsed)
      [] k = 3 -> RuleSelfBinding(parsed)
      [] k = 4 -> RuleTags(parsed)
      [] k = 5 -> RuleAmpliconGc(parsed)
      [] k = 6 -> RulePolyMax(parsed)
      [] k = 7 -> RuleTm(parsed)
      [] k = 8 -> RuleSize(parsed)

NumRules == 8

\* The body from rule k on with the running ret_code: a rule that returns
\* or raises ends the function, a downgrade sets ret_code and goes on.
RECURSIVE RunRules(_, _, _)
RunRules(k, parsed, ret_code) ==
    IF k > NumRules THEN [exc |-> "", ret |-> ret_code]
    ELSE LET o == Rule(k, parsed)
         IN  CASE o = "nq"        -> [exc |-> "", ret |-> CODE_NQ]
               [] o = "pass"      -> RunRules(k + 1, parsed, ret_code)
               [] o = "downgrade" -> RunRules(k + 1, parsed, CODE_ACCEPTABLE)
               [] OTHER           -> [exc |-> o, ret |-> CODE_NQ]

\* check_primer3_result(parsed): exc, the returned code (when exc = "") and
\* the entries it appends to ispcr_return.
check_primer3_result(parsed) ==
    LET r == RunRules(1, parsed, CODE_IDEAL)
    IN  [exc |-> r.exc, ret |-> r.ret, rejected |-> RejectedEntry(parsed)]

\* ------------------------------------------------------- text parsing
\* The index (0-based) of the first occurrence of the character sep in s
\* from position i on, Len(s) when there is none.
RECURSIVE Find(_, _, _)
Find(s, sep, i) == IF i >= Len(s) THEN Len(s)
                   ELSE IF CharAt(s, i) = sep THEN i
                   ELSE Find(s, sep, i + 1)

\* s.split(sep) for a one-character separator: always at least one field.
RECURSIVE Split(_, _)
Split(s, sep) ==
    LET k == Find(s, sep, 0)
    IN  IF k = Len(s) THEN <<s>>
        ELSE <<Slice(s, 0, k)>> \o Split(Slice(s, k + 1, Len(s)), sep)

Whitespace == {" ", "\n", "\t", "\r"}

\* s.rstrip()
RECURSIVE RStrip(_)
RStrip(s) == IF Len(s) > 0 /\ CharAt(s, Len(s) - 1) \in Whitespace
             THEN RStrip(Slice(s, 0, Len(s) - 1))
             ELSE s

DigitValue == [c \in {"0", "1", "2", "3", "4", "5", "6", "7", "8", "9"} |->
                 CASE c = "0" -> 0 [] c = "1" -> 1 [] c = "2" -> 2 [] c = "3" -> 3
                   [] c = "4" -> 4 [] c = "5" -> 5 [] c = "6" -> 6 [] c = "7" -> 7
                   [] c = "8" -> 8 [] c = "9" -> 9]

RECURSIVE DigitsValue(_, _)
DigitsValue(s, acc) == IF Len(s) = 0 THEN acc
                       ELSE DigitsValue(Tail(s), 10 * acc + DigitValue[Head(s)])

AllDigits(s) == Len(s) > 0 /\ \A i \in 0..(Len(s) - 1) : CharAt(s, i) \in DOMAIN DigitValue

\* s.lstrip()
RECURSIVE LStrip(_)
LStrip(s) == IF Len(s) > 0 /\ Head(s) \in Whitespace THEN LStrip(Tail(s)) ELSE s

\* int(s) for a str: surrounding whitespace is dropped, then decimal digits
\* with an optional sign; anything else raises ValueError.
ParseInt(str) ==
    LET s == LStrip(RStrip(str))
    IN  IF AllDigits(s) THEN [exc |-> "", val |-> DigitsValue(s, 0)]
        ELSE IF Len(s) > 1 /\ Head(s) = "-" /\ AllDigits(Tail(s))
        THEN [exc |-> "", val |-> 0 - DigitsValue(Tail(s), 0)]
        ELSE IF Len(s) > 1 /\ Head(s) = "+" /\ AllDigits(Tail(s))
        THEN [exc |-> "", val |-> DigitsValue(Tail(s), 0)]
        ELSE [exc |-> "ValueError", val |-> 0]

\* ------------------------------------------------ parse_primer3_results
\* PRIMER3_KEY_MAP: each key template as the text before and after %d.
PRIMER3_KEY_MAP ==
    [left_primer      |-> <<"PRIMER_LEFT_", "_SEQUENCE">>,
     right_primer     |-> <<"PRIMER_RIGHT_", "_SEQUENCE">>,
     left_primer_loc  |-> <<"PRIMER_LEFT_", "">>,
     right_primer_loc |-> <<"PRIMER_RIGHT_", "">>,
     left_tm          |-> <<"PRIMER_LEFT_", "_TM">>,
     right_tm         |-> <<"PRIMER_RIGHT_", "_TM">>,
     left_primer_gc   |-> <<"PRIMER_LEFT_", "_GC_PERCENT">>,
     right_primer_gc  |-> <<"PRIMER_RIGHT_", "_GC_PERCENT">>,
     product_size     |-> <<"PRIMER_PAIR_", "_PRODUCT_SIZE">>]

\* name % i
KeyName(name, i) == name[1] \o ToString(i) \o name[2]

\* A parser whose product slice takes one base more at the right end.
ParsedPairOneMore(kv_hash, i) ==
    LET fields   == [key \in DOMAIN PRIMER3_KEY_MAP |->
                        kv_hash[KeyName(PRIMER3_KEY_MAP[key], i)]]
        sequence == kv_hash["SEQUENCE_TEMPLATE"]
        left_idx == fields.left_primer_loc[1]
        right_idx == left_idx + fields.product_size + 1
    IN  [left_primer      |-> fields.left_primer,
         right_primer     |-> fields.right_primer,
         left_primer_loc  |-> fields.left_primer_loc,
         right_primer_loc |-> fields.right_primer_loc,
         left_tm          |-> fields.left_tm,
         right_tm         |-> fields.right_tm,
         left_primer_gc   |-> fields.left_primer_gc,
         right_primer_gc  |-> fields.right_primer_gc,
         product_size     |-> fields.product_size,
         product_loc      |-> <<left_idx, fields.product_size>>,
         product          |-> Slice(sequence, left_idx, right_idx),
         sequence         |-> sequence]

\* The dict built for pair i. kv_hash is the key/value table read from the
\* oracle's output, its values already typed: sequences are strings, a
\* location "pos,len" is the pair <<pos, len>>, a size is an integer and
\* a melting temperature is in tenths of a degree.
ParsedPair(kv_hash, i) ==
    LET fields   == [key \in DOMAIN PRIMER3_KEY_MAP |->
                        kv_hash[KeyName(PRIMER3_KEY_MAP[key], i)]]
        sequence == kv_hash["SEQUENCE_TEMPLATE"]
        left_idx == fields.left_primer_loc[1]
        right_idx == left_idx + fields.product_size
    IN  [left_primer      |-> fields.left_primer,
         right_primer     |-> fields.right_primer,
         left_primer_loc  |-> fields.left_primer_loc,
         right_primer_loc |-> fields.right_primer_loc,
         left_tm          |-> fields.left_tm,
         right_tm         |-> fields.right_tm,
         left_primer_gc   |-> fields.left_primer_gc,
         right_primer_gc  |-> fields.right_primer_gc,
         product_size     |-> fields.product_size,
         product_loc      |-> <<left_idx, fields.product_size>>,
         product          |-> Slice(sequence, left_idx, right_idx),
         sequence         |-> sequence]

\* The keys pair i needs.
PairKeys(i) == {KeyName(PRIMER3_KEY_MAP[key], i) : key \in DOMAIN PRIMER3_KEY_MAP}

\* parse_primer3_results: kv_hash[...] raises KeyError on an absent key.
parse_primer3_results(kv_hash) ==
    IF {"SEQUENCE_TEMPLATE", "SEQUENCE_TARGET", "PRIMER_PAIR_NUM_RETURNED"}
          \subseteq DOMAIN kv_hash
    THEN LET num_pairs == kv_hash["PRIMER_PAIR_NUM_RETURNED"]
         IN  IF \A i \in 0..(num_pairs - 1) : PairKeys(i) \subseteq DOMAIN kv_hash
             THEN [exc |-> "", val |-> [k \in 1..num_pairs |-> ParsedPair(kv_hash, k - 1)]]
             ELSE [exc |-> "KeyError", val |-> << >>]
    ELSE [exc |-> "KeyError", val |-> << >>]

\* ---------------------------------------------------- get_ispcr_results
\* The line written to the isPCR input file for candidate i.
IspcrLine(i, parsed) ==
    ToString(i) \o " " \o parsed.left_primer \o " " \o parsed.right_primer
                \o " " \o ToString(MAX_ISPCR_SEARCH_SIZE)

\* Record d with d[key] = v (a dict assignment).
SetKey(d, key, v) == [k \in (DOMAIN d) \cup {key} |-> IF k = key THEN v ELSE d[k]]

\* The loop over the response lines from line n on. A line that starts
\* with '>' names a candidate in its second space-delimited field:
\* fields[1] raises IndexError when absent, int() ValueError, and
\* parsed_results[idx] IndexError outside -len..len-1 (a negative idx
\* counts from the end).
RECURSIVE IspcrLoop(_, _, _)
IspcrLoop(lines, n, parsed_results) ==
    IF n > Len(lines) THEN [exc |-> "", val |-> parsed_results]
    ELSE LET line == lines[n]
         IN  IF Len(line) < 1 \/ CharAt(line, 0) # ">"
             THEN IspcrLoop(lines, n + 1, parsed_results)
             ELSE LET fields == Split(line, " ")
                      idx    == IF Len(fields) < 2 THEN [exc |-> "IndexError", val |-> 0]
                                ELSE ParseInt(fields[2])
                      len    == Len(parsed_results)
                      pos    == IF idx.val < 0 THEN idx.val + len ELSE idx.val
                  IN  IF idx.exc # "" THEN [exc |-> idx.exc, val |-> parsed_results]
                      ELSE IF pos < 0 \/ pos >= len
                      THEN [exc |-> "IndexError", val |-> parsed_results]
                      ELSE IspcrLoop(lines, n + 1,
                              [parsed_results EXCEPT ![pos + 1] =
                                  SetKey(@, "ispcr_count", Get(@, "ispcr_count", 0) + 1)])

\* A loop that starts at the second line of the response.
get_ispcr_results_from_second(parsed_results, response) ==
    IspcrLoop(Split(response, "\n"), 2, parsed_results)

\* get_ispcr_results from the decoded response on: res.split("\n") and
\* the loop.
get_ispcr_results(parsed_results, response) ==
    IspcrLoop(Split(response, "\n"), 1, parsed_results)

\* ------------------------------------------------------ the environment
\* The design oracle's output for one primer pair i, as the keys of
\* PRIMER3_KEY_MAP. The oracle reports the right primer by the position of
\* its rightmost base, the last base of the product.
OraclePair(i, left, right, left_tm, right_tm, left_idx, size) ==
    [k \in PairKeys(i) |->
        CASE k = KeyName(PRIMER3_KEY_MAP.left_primer, i)      -> left
          [] k = KeyName(PRIMER3_KEY_MAP.right_primer, i)     -> right
          [] k = KeyName(PRIMER3_KEY_MAP.left_primer_loc, i)  -> <<left_idx, Len(left)>>
          [] k = KeyName(PRIMER3_KEY_MAP.right_primer_loc, i) -> <<left_idx + size - 1, Len(right)>>
          [] k = KeyName(PRIMER3_KEY_MAP.left_tm, i)          -> left_tm
          [] k = KeyName(PRIMER3_KEY_MAP.right_tm, i)         -> right_tm
          [] k = KeyName(PRIMER3_KEY_MAP.left_primer_gc, i)   -> get_gc_pct(left)
          [] k = KeyName(PRIMER3_KEY_MAP.right_primer_gc, i)  -> get_gc_pct(right)
          [] k = KeyName(PRIMER3_KEY_MAP.product_size, i)     -> size]

\* The keys of the output that belong to no pair.
OracleHeader(sequence, target, num_pairs) ==
    [k \in {"SEQUENCE_TEMPLATE", "SEQUENCE_TARGET", "PRIMER_PAIR_NUM_RETURNED"} |->
        CASE k = "SEQUENCE_TEMPLATE" -> sequence
          [] k = "SEQUENCE_TARGET" -> target
          [] k = "PRIMER_PAIR_NUM_RETURNED" -> num_pairs]

\* A primer pair that passes every rule, and variants of each primer.
GoodLeft == "CTCCAGCGCGGTCAGTTCCA"
GoodRight == "ATGCGTTCGCTCTATTGACT"

LeftPrimers ==
    {GoodLeft,
     "ctcCAGCGCGGTCAGTTCCA",      \* lowercase before the last 10 only
     "CTCCAGCGCgGTCAGTTCCA",      \* lowercase at the 11th from the end
     "CTCCAGCGCGgTCAGTTCCA",      \* lowercase at the 10th from the end
     "CTCCAGCGCGGTCAGTtCCA",      \* lowercase within the last 4
     "CTCCAGCGCGGTCAGTTCNA",      \* a base outside A/C/G/T within the last 4
     "CTCCANCGCGGTCAGTTCCA",      \* a base outside A/C/G/T before the last 4
     "CAGCGCGGTCAGTTCCA",         \* 17 bases
     "CCAGCGCGGTCAGTTCCA",        \* 18 bases
     "GATACCTCCAGCGCGGTCAGTTCCA", \* 25 bases
     "TGATACCTCCAGCGCGGTCAGTTCCA",   \* 26 bases
     "CTCCAGCGCGGTCAGTTTTCA",     \* longest run 4
     "CTCCAGCGCGGTCAAAAATTCCA",   \* longest run 5
     "CTCCAGCGCGGTCAAAAAATTCCA",  \* longest run 6
     "gCAGTTCCA",                 \* 9 bases, the first lowercase
     "CTCCAGTCCGGTCAGTTCCA",      \* holds AGTC, the complement of GoodRight's 3' end
     "CTCAGGTGCGGTCAGTTCCA",      \* holds AGGT, the complement of its own 3' end
     "CTCCAGCGCGGTCAGTATCG",      \* 3' complement TAGC is in the reversed RIGHT_TAG only
     "CTCCAGCGCGGTCAGTTCTG"}      \* 3' complement AGAC is in RIGHT_TAG read forward only

RightPrimers ==
    {GoodRight,
     "ATGCGTTCGCTCTATTGaCT",      \* lowercase within the last 4
     "ATGCGTTCGCTCTATTGANT",      \* a base outside A/C/G/T within the last 4
     "CGTTCGCTCTATTGACT",         \* 17 bases
     "ATGCGTTCGCTCTAAAAATTGACT",  \* longest run 5
     "ATGCGTTCGCTGGATTGACT",      \* reversed, holds AGGT, the complement of GoodLeft's 3' end
     "ATGCGTTCGCTGGATTGANT",      \* the same with a base outside A/C/G/T within the last 4
     "ATGCGCTGACTCTATTGACT",      \* reversed, holds AGTC, the complement of its own 3' end
     "ATGCGTTCGCTCTATTGTGT"}      \* 3' complement ACAC is in LEFT_TAG only

\* Melting temperatures in tenths of a degree, around both limits.
LeftTms == {549, 550, 650, 651}
RightTms == {550, 651}

\* Templates and the place of the product in them: the product is
\* template[left_idx : left_idx + size].
Placements ==
    {[sequence |-> "AAGCGCAAAAAAAAAAAAAAAATT", left_idx |-> 2, size |-> 20],   \* GC 20%
     [sequence |-> "AAGCGCGAAAAAAAAAAAAAAATT", left_idx |-> 2, size |-> 20],   \* GC 25%
     [sequence |-> "AAGCGCGCGAAAAAAAAAAAAAAAAAATT", left_idx |-> 2, size |-> 25], \* GC 28%
     [sequence |-> "AAGCGCGCAAAAAAAAAAAAAATT", left_idx |-> 2, size |-> 20],   \* GC 30%
     [sequence |-> "AAGCGCGCGCGCATATATATATTT", left_idx |-> 2, size |-> 20],   \* GC 50%
     [sequence |-> "AAgcgcgcgcgcatatatatatTT", left_idx |-> 2, size |-> 20],   \* GC 50%, masked
     [sequence |-> "AAGCGCGCGCGCGCGCGAAAAATT", left_idx |-> 2, size |-> 20],   \* GC 75%
     [sequence |-> "AAGCGCGCGCGCGCGCGCAAAATT", left_idx |-> 2, size |-> 20],   \* GC 80%
     [sequence |-> "AAGCGCGCGCGCATATATATATTT", left_idx |-> 2, size |-> 0],    \* empty product
     [sequence |-> "AAGCGCGCGCGCATATATATATTT", left_idx |-> 24, size |-> 20]}  \* product past the end

\* Responses of the specificity search for a batch of one candidate: no
\* match, one, two and three matches of candidate 0 (a match is a header
\* line followed by the matched sequence).
MatchLines(i) == ">chr1:1002+1021 " \o ToString(i) \o " 20bp\nGCGCGCGCGCATATATATAT\n"

QualResponses == {"", MatchLines(0), MatchLines(0) \o MatchLines(0),
                  MatchLines(0) \o MatchLines(0) \o MatchLines(0)}

\* The candidates the qualifier is applied to: every combination of the
\* above, parsed by parse_primer3_results and annotated by
\* get_ispcr_results.
QualCandidates ==
    {get_ispcr_results(
        parse_primer3_results(
            OracleHeader(pl.sequence, <<2, 4>>, 1)
              @@ OraclePair(0, l, r, ltm, rtm, pl.left_idx, pl.size)).val,
        resp).val[1] :
     l \in LeftPrimers, r \in RightPrimers, ltm \in LeftTms, rtm \in RightTms,
     pl \in Placements, resp \in QualResponses}

\* The design oracle's outputs in a controller run. Each is the outcome of
\* one primer3_core call: a non-zero exit, or the key/value table of its
\* output.
CtlTemplate == "AAGCGCGCGCGCATATATATATTT"
IdealPair(i) == OraclePair(i, GoodLeft, GoodRight, 600, 600, 2, 20)
AcceptablePair(i) == OraclePair(i, GoodLeft, GoodRight, 651, 600, 2, 20)
MaskedPair(i) == OraclePair(i, "CTCCAGCGCGGTCAGTtCCA", GoodRight, 600, 600, 2, 20)
InvalidBasePair(i) == OraclePair(i, "CTCCAGCGCGGTCAGTTCNA", GoodRight, 600, 600, 2, 20)
WidePair(i) == OraclePair(i, GoodLeft, GoodRight, 600, 600, 1, 22)
Header(num_pairs) == OracleHeader(CtlTemplate, <<2, 4>>, num_pairs)

\* An output without key k.
Without(kv_hash, k) == [x \in (DOMAIN kv_hash) \ {k} |-> kv_hash[x]]

DesignOutcomes ==
    {[fail |-> TRUE, kv |-> Header(0)]} \cup
    {[fail |-> FALSE, kv |-> kv] : kv \in
       {Header(0),
        Header(1) @@ IdealPair(0),
        Header(1) @@ AcceptablePair(0),
        Header(1) @@ MaskedPair(0),
        Header(1) @@ WidePair(0),
        Header(2) @@ AcceptablePair(0) @@ IdealPair(1),
        Header(2) @@ IdealPair(0) @@ AcceptablePair(1),
        Header(2) @@ MaskedPair(0) @@ AcceptablePair(1),
        Header(2) @@ InvalidBasePair(0) @@ IdealPair(1),
        \* the oracle reports an error instead of a result
        Without(Header(0), "PRIMER_PAIR_NUM_RETURNED"),
        \* a pair is announced and one of its keys is absent
        Without(Header(1) @@ IdealPair(0), KeyName(PRIMER3_KEY_MAP.left_tm, 0))}}

\* The specificity search's outcomes for a batch of n candidates: a
\* non-zero exit, or its output: no match at all, every candidate matched
\* once, candidate 0 matched twice and the others once, a match line
\* without a second field, and one candidate of several matched alone.
RECURSIVE AllMatched(_)
AllMatched(n) == IF n = 0 THEN "" ELSE AllMatched(n - 1) \o MatchLines(n - 1)

IspcrOutcomes(n) ==
    {[fail |-> TRUE, response |-> ""]} \cup
    {[fail |-> FALSE, response |-> r] : r \in
       {"", AllMatched(n), MatchLines(0) \o AllMatched(n), ">chr1:1002+1021\n"}
          \cup {MatchLines(i) : i \in 0..(n - 1)}}

IspcrOutcomesUpTo2 == [n \in 0..2 |-> IspcrOutcomes(n)]

\* The outcomes of the two tools in the runs over whole input files: the
\* oracle fails, finds nothing, or finds one pair; the search fails, or
\* matches every candidate once.
BatchDesignOutcomes ==
    {[fail |-> TRUE, kv |-> Header(0)],
     [fail |-> FALSE, kv |-> Header(0)],
     [fail |-> FALSE, kv |-> Header(1) @@ IdealPair(0)],
     [fail |-> FALSE, kv |-> Header(1) @@ AcceptablePair(0)]}

BatchIspcrOutcomes ==
    [n \in 0..2 |-> {[fail |-> TRUE, response |-> ""],
                     [fail |-> FALSE, response |-> AllMatched(n)]}]

\* The lines of the input file.
ValidLine1 == "A1,chr1:1000-1020\n"
ValidLine2 == "B2,chr2:5000-5020\n"
NotChrLine == "A3,1:1000-1020\n"
NoCommaLine == "A4\n"
TwoCommaLine == "A5,chr1:1000-1020,hg38\n"
EmptyLine == "\n"
NoRangeLine == "A6,chrX\n"

LinePool == {ValidLine1, ValidLine2, NotChrLine, NoCommaLine, TwoCommaLine, EmptyLine,
             NoRangeLine}

\* The most lines of an input file.
MaxLines == 2

\* The input files of at most MaxLines lines.
InputFiles == UNION {[1..n -> LinePool] : n \in 0..MaxLines}

\* The input files of one line.
OneLineFiles == {<<l>> : l \in LinePool}

\* The most entries of ispcr_return in a run: the searches' answers are
\* limited to those that keep the diagnostic list within it.
MaxRejected == 2

\* primer3_settings_file_dict
primer3_settings_file_dict ==
    [w \in {40, 50, 60, 70, 80, 90} |->
        CASE w = 40 -> "primer3_settings_250-260.cnf"
          [] w = 50 -> "primer3_settings_260-270.cnf"
          [] w = 60 -> "primer3_settings_270-280.cnf"
          [] w = 70 -> "primer3_settings_280-290.cnf"
          [] w = 80 -> "primer3_settings_290-300.cnf"
          [] w = 90 -> "primer3_settings_300-310.cnf"]

\* main's arguments to get_top_primers: leeway, search_range = 50, 40
InitialLeeway == 50
InitialSearchRange == 40

\* The value get_top_primers returns when the search is exhausted.
None == [none |-> TRUE]

\* ---------------------------------------------------------------- state
VARIABLES
    args_ok,        \* main: -f, -g and -o were all given
    input,          \* main: the lines of the input file
    pc,             \* where the run is
    exc,            \* the exception that ended the run ("" when none)
    next_line,      \* main: the next line of the input file (from 1)
    line,           \* main: the current line, stripped
    well_id,        \* main: the current line's first field
    location,       \* main: the current line's second field
    res,            \* main: what get_top_primers returned
    res_hash,       \* main: line -> winner, in insertion order
    dropout,        \* main: the rows of the drop-out report after its header
    output,         \* main: the rows of the output table after its header
    search_range,   \* get_top_primers: the window of the current call
    left_end,       \* get_top_primers: left end of the template
    chromosome,     \* get_top_primers: chromosome of the location
    primer3_output, \* get_top_primers: what the design oracle's call gave
    ispcr_output,   \* get_ispcr_results: what the specificity search's call gave
    parsed_results, \* get_top_primers: the candidates of the current round
    cand_idx,       \* get_top_primers: the loop's place in parsed_results (from 1)
    acceptable,     \* get_top_primers: the acceptable candidates of the round
    checked,        \* the candidates check_primer3_result was called on this round
    design_calls,   \* the windows of the design oracle's calls for this locus
    ispcr_calls,    \* the windows of the specificity searches for this locus
    ispcr_return,   \* the module's list of specificity-rejected candidates
    files,          \* the temporary files that exist
    server_up,      \* a gfServer process runs
    server_starts,  \* gfServer start commands issued
    server_stops,   \* kill commands issued
    qcand,          \* the candidate handed to check_primer3_result
    qout            \* what check_primer3_result did with it

argvars == <<args_ok, input>>
linevars == <<next_line, line, well_id, location>>
resultvars == <<res_hash, dropout, output>>
\* The locals of the current call of get_top_primers.
framevars == <<search_range, left_end, chromosome, primer3_output, ispcr_output,
               parsed_results, cand_idx, acceptable, checked>>
callvars == <<design_calls, ispcr_calls>>
servervars == <<server_up, server_starts, server_stops>>
mainvars == <<argvars, pc, exc, linevars, res, resultvars, framevars, callvars,
              ispcr_return, files, servervars>>
qvars == <<qcand, qout>>
vars == <<mainvars, qvars>>

\* ------------------------------------------------------- get_top_primers
\* A sentinel one step further.
IsSentinelLater(w) == w = 110

\* search_range == 100
IsSentinel(w) == w = 100

\* A recursive call that skips a window.
NextRangeDouble(w) == w + 20

\* The window of the recursive call.
NextRange(w) == w + 10

\* ultramer_location.split(':'), the range's split('-') and both int():
\* unpacking other than two fields, or a field that is no integer, raises
\* ValueError.
ParseLocation(ultramer_location) ==
    LET parts == Split(ultramer_location, ":")
        range == Split(parts[2], "-")
        bad   == [exc |-> "ValueError", chromosome |-> "", left |-> 0, right |-> 0]
    IN  IF Len(parts) # 2 THEN bad
        ELSE IF Len(range) # 2 THEN bad
        ELSE IF ParseInt(range[1]).exc # "" \/ ParseInt(range[2]).exc # "" THEN bad
        ELSE [exc |-> "", chromosome |-> parts[1],
              left |-> ParseInt(range[1]).val, right |-> ParseInt(range[2]).val]

\* The names of the two temporary files of a locus.
Primer3File(seq_name) == seq_name \o ".primer3"
IspcrFile(seq_name) == seq_name \o ".ispcr"

\* An oracle call whose non-zero exit is taken for an empty batch.
DesignResultLenient(out) ==
    IF out.fail THEN [exc |-> "", val |-> << >>]
    ELSE parse_primer3_results(out.kv)

\* subprocess.check_output of the oracle and parse_primer3_results of its
\* output: a non-zero exit raises CalledProcessError.
DesignResult(out) ==
    IF out.fail THEN [exc |-> "CalledProcessError", val |-> << >>]
    ELSE parse_primer3_results(out.kv)

\* subprocess.check_output of the search (which fails without a server)
\* and the loop over its output.
IspcrResult(out, batch, up) ==
    IF out.fail \/ ~up THEN [exc |-> "CalledProcessError", val |-> batch]
    ELSE get_ispcr_results(batch, out.response)

\* The locals of a call that has not assigned them yet.
FreshFrame(w) == /\ search_range' = w
                 /\ left_end' = 0
                 /\ chromosome' = ""
                 /\ primer3_output' = None
                 /\ ispcr_output' = None
                 /\ parsed_results' = << >>
                 /\ cand_idx' = 1
                 /\ acceptable' = << >>
                 /\ checked' = << >>

\* An exception that nothing catches ends the run.
Raise(e) == /\ pc' = "aborted"
            /\ exc' = e

\* get_top_primers entered at the sentinel: return None.
Sentinel ==
    /\ pc = "enter"
    /\ IsSentinel(search_range)
    /\ pc' = "returned"
    /\ res' = None
    /\ UNCHANGED <<argvars, exc, linevars, resultvars, framevars, callvars,
                   ispcr_return, files, servervars, qvars>>

\* get_top_primers entered with a window that has no settings file, or
\* with a location it cannot take apart: KeyError or ValueError before any
\* file is written.
EnterError ==
    /\ pc = "enter"
    /\ ~IsSentinel(search_range)
    /\ \/ search_range \notin DOMAIN primer3_settings_file_dict
       \/ ParseLocation(location).exc # ""
    /\ Raise(IF search_range \notin DOMAIN primer3_settings_file_dict
             THEN "KeyError" ELSE ParseLocation(location).exc)
    /\ UNCHANGED <<argvars, linevars, res, resultvars, framevars, callvars,
                   ispcr_return, files, servervars, qvars>>

\* get_top_primers up to parse_primer3_results: the template's bounds, the
\* oracle's input file, the oracle's call and the parse of its output.
DesignFrom(outcomes) ==
    /\ pc = "enter"
    /\ ~IsSentinel(search_range)
    /\ search_range \in DOMAIN primer3_settings_file_dict
    /\ ParseLocation(location).exc = ""
    /\ \E out \in outcomes :
          LET loc    == ParseLocation(location)
              parsed == DesignResult(out)
          IN  /\ left_end' = loc.left - InitialLeeway - search_range
              /\ chromosome' = loc.chromosome
              /\ files' = files \cup {Primer3File(well_id)}
              /\ design_calls' = Append(design_calls, search_range)
              /\ primer3_output' = out
              /\ IF parsed.exc # ""
                 THEN Raise(parsed.exc) /\ UNCHANGED parsed_results
                 ELSE pc' = "designed" /\ parsed_results' = parsed.val /\ UNCHANGED exc
    /\ UNCHANGED <<argvars, linevars, res, resultvars, search_range, ispcr_output,
                   cand_idx, acceptable, checked, ispcr_calls, ispcr_return,
                   servervars, qvars>>

\* The candidates of a batch the specificity rule will reject.
NumRejected(batch) ==
    Cardinality({i \in 1..Len(batch) : Get(batch[i], "ispcr_count", 0) # 1})

\* get_ispcr_results and the removal of the oracle's input file: the
\* search's input file, its call, the counts, and both files removed.
IspcrFrom(outcomes) ==
    /\ pc = "designed"
    /\ \E out \in outcomes[Len(parsed_results)] :
          LET annotated == IspcrResult(out, parsed_results, server_up)
          IN  /\ ispcr_calls' = Append(ispcr_calls, search_range)
              /\ ispcr_output' = out
              /\ IF annotated.exc # ""
                 THEN /\ Raise(annotated.exc)
                      /\ files' = files \cup {IspcrFile(well_id)}
                      /\ UNCHANGED parsed_results
                 ELSE /\ Len(ispcr_return) + NumRejected(annotated.val) <= MaxRejected
                      /\ pc' = "annotated"
                      /\ parsed_results' = annotated.val
                      /\ files' = files \ {IspcrFile(well_id), Primer3File(well_id)}
                      /\ UNCHANGED exc
    /\ UNCHANGED <<argvars, linevars, res, resultvars, search_range, left_end,
                   chromosome, primer3_output, cand_idx, acceptable, checked,
                   design_calls, ispcr_return, servervars, qvars>>

\* The two calls with the tools' outcomes of a controller run, and with
\* those of a run over a whole file.
Design == DesignFrom(DesignOutcomes)
Ispcr == IspcrFrom(IspcrOutcomesUpTo2)
BatchDesign == DesignFrom(BatchDesignOutcomes)
BatchIspcr == IspcrFrom(BatchIspcrOutcomes)

\* One turn of the loop over parsed_results: the candidate gets left_end
\* and chromosome and is qualified; CODE_IDEAL returns it at once,
\* CODE_ACCEPTABLE appends it to acceptable, and what check_primer3_result
\* raises ends the run.
QualifyOne ==
    /\ pc = "annotated"
    /\ cand_idx <= Len(parsed_results)
    /\ \E parsed \in {SetKey(SetKey(parsed_results[cand_idx], "left_end", left_end),
                             "chromosome", chromosome)} :
          LET code == check_primer3_result(parsed)
          IN  /\ parsed_results' = [parsed_results EXCEPT ![cand_idx] = parsed]
              /\ ispcr_return' = ispcr_return \o code.rejected
              /\ checked' = Append(checked, cand_idx)
              /\ IF code.exc # ""
                 THEN Raise(code.exc) /\ UNCHANGED <<res, acceptable, cand_idx>>
                 ELSE IF code.ret = CODE_IDEAL
                 THEN /\ pc' = "returned"
                      /\ res' = parsed
                      /\ UNCHANGED <<exc, acceptable, cand_idx>>
                 ELSE /\ pc' = "annotated"
                      /\ cand_idx' = cand_idx + 1
                      /\ acceptable' = IF code.ret = CODE_ACCEPTABLE
                                       THEN Append(acceptable, parsed) ELSE acceptable
                      /\ UNCHANGED <<exc, res>>
    /\ UNCHANGED <<argvars, linevars, resultvars, search_range, left_end, chromosome,
                   primer3_output, ispcr_output, callvars, files, servervars, qvars>>

\* A loop that is left after its first candidate.
QualifyEndEarly ==
    /\ pc = "annotated"
    /\ cand_idx > Min(Len(parsed_results), 1)
    /\ IF Len(acceptable) > 0
       THEN pc' = "returned" /\ res' = acceptable[1] /\ UNCHANGED framevars
       ELSE pc' = "enter" /\ FreshFrame(NextRange(search_range)) /\ UNCHANGED res
    /\ UNCHANGED <<argvars, exc, linevars, resultvars, callvars, ispcr_return, files,
                   servervars, qvars>>

\* After the loop: the first acceptable candidate is returned, and without
\* any the function calls itself with the next window.
QualifyEnd ==
    /\ pc = "annotated"
    /\ cand_idx > Len(parsed_results)
    /\ IF Len(acceptable) > 0
       THEN pc' = "returned" /\ res' = acceptable[1] /\ UNCHANGED framevars
       ELSE pc' = "enter" /\ FreshFrame(NextRange(search_range)) /\ UNCHANGED res
    /\ UNCHANGED <<argvars, exc, linevars, resultvars, callvars, ispcr_return, files,
                   servervars, qvars>>

\* ------------------------------------------------------------------ main
\* A location whose end is the last base.
derive_location_inclusive(primer3_loc, lend, chrom) ==
    LET start_location == lend + primer3_loc[1]
        end_location   == start_location + primer3_loc[2] - 1
    IN  chrom \o ":" \o ToString(start_location) \o "-" \o ToString(end_location)

\* "%s:%d-%d" % (chromosome, start_location, end_location)
derive_location(primer3_loc, lend, chrom) ==
    LET start_location == lend + primer3_loc[1]
        end_location   == start_location + primer3_loc[2]
    IN  chrom \o ":" \o ToString(start_location) \o "-" \o ToString(end_location)

\* The genome given with -g.
Genome == "hg38"

\* The row of the output table for one entry of res_hash.
OutputRow(loc, r) ==
    LET name     == Split(loc, ",")[1]
        right    == r.right_primer_loc
        left_loc == right[1] - right[2] + 1
        right_primer_loc == <<left_loc, right[2]>>
    IN  <<name, Genome,
          derive_location(r.left_primer_loc, r.left_end, r.chromosome),
          r.left_primer,
          derive_location(right_primer_loc, r.left_end, r.chromosome),
          r.right_primer,
          r.product_size,
          derive_location(r.product_loc, r.left_end, r.chromosome),
          r.product,
          LEFT_TAG \o r.left_primer,
          RIGHT_TAG \o r.right_primer>>

\* d[key] = val for a dict kept as the sequence of its items: a key that
\* is present keeps its place.
DictSet(d, key, val) ==
    IF \E i \in 1..Len(d) : d[i].key = key
    THEN [i \in 1..Len(d) |-> IF d[i].key = key THEN [key |-> key, val |-> val] ELSE d[i]]
    ELSE Append(d, [key |-> key, val |-> val])

\* What the pipeline ps ax | grep ... | cut -d' ' -f1 of stop_blat_server
\* prints: nothing without a gfServer; with one, its line's first
\* space-delimited field, which is the pid when ps prints it at the start
\* of the line and empty when ps pads the pid column with spaces.
PsOutputs(up) == IF up THEN {"12345\n", "\n"} ELSE {""}

\* stop_blat_server: pids is the output with its newlines replaced by
\* spaces, and kill -9 runs when len(pids) > 3.
KillIssued(ps_output) ==
    LET pids == [i \in 1..Len(ps_output) |->
                    IF CharAt(ps_output, i - 1) = "\n" THEN " " ELSE CharAt(ps_output, i - 1)]
    IN  Len(pids) > 3

\* main with an argument missing: the help text and exit status 1.
Usage ==
    /\ pc = "start"
    /\ ~args_ok
    /\ pc' = "exit1"
    /\ UNCHANGED <<argvars, exc, linevars, res, resultvars, framevars, callvars,
                   ispcr_return, files, servervars, qvars>>

\* start_blat_server: stop_blat_server, then a gfServer is started (with
\* one left running, that one goes on serving the port).
Start ==
    /\ pc = "start"
    /\ args_ok
    /\ pc' = "loop"
    /\ \E ps_output \in PsOutputs(server_up) :
          server_stops' = server_stops + (IF KillIssued(ps_output) THEN 1 ELSE 0)
    /\ server_starts' = server_starts + 1
    /\ server_up' = TRUE
    /\ UNCHANGED <<argvars, exc, linevars, res, resultvars, framevars, callvars,
                   ispcr_return, files, qvars>>

\* One turn of the loop over the input file up to the call of
\* get_top_primers: the line is stripped and split at its commas
\* (unpacking other than two fields raises ValueError); a location that
\* does not start with chr is skipped.
ReadLine ==
    /\ pc = "loop"
    /\ next_line <= Len(input)
    /\ LET stripped == RStrip(input[next_line])
           fields   == Split(stripped, ",")
       IN  /\ line' = stripped
           /\ IF Len(fields) # 2
              THEN /\ Raise("ValueError")
                   /\ UNCHANGED <<well_id, location, next_line>>
              ELSE /\ well_id' = fields[1]
                   /\ location' = fields[2]
                   /\ UNCHANGED exc
                   /\ IF Slice(fields[2], 0, 3) # "chr"
                      THEN pc' = "loop" /\ next_line' = next_line + 1
                      ELSE pc' = "enter" /\ UNCHANGED next_line
    /\ UNCHANGED <<argvars, res, resultvars, framevars, callvars, ispcr_return, files,
                   servervars, qvars>>

\* The loop's turn after get_top_primers returned: a result goes to
\* res_hash under the line, no result is a row of the drop-out report.
\* The locals of the calls that returned are gone.
Return ==
    /\ pc = "returned"
    /\ IF res # None
       THEN res_hash' = DictSet(res_hash, line, res) /\ UNCHANGED dropout
       ELSE dropout' = Append(dropout, <<well_id, location>>) /\ UNCHANGED res_hash
    /\ next_line' = next_line + 1
    /\ pc' = "loop"
    /\ FreshFrame(InitialSearchRange)
    /\ design_calls' = << >>
    /\ ispcr_calls' = << >>
    /\ UNCHANGED <<argvars, exc, line, well_id, location, res, output, ispcr_return,
                   files, servervars, qvars>>

\* After the loop: the output table is written from res_hash and
\* stop_blat_server kills the gfServer whose pid it finds.
Finish ==
    /\ pc = "loop"
    /\ next_line > Len(input)
    /\ output' = [i \in 1..Len(res_hash) |-> OutputRow(res_hash[i].key, res_hash[i].val)]
    /\ \E ps_output \in PsOutputs(server_up) :
          /\ server_stops' = server_stops + (IF KillIssued(ps_output) THEN 1 ELSE 0)
          /\ server_up' = (server_up /\ ~KillIssued(ps_output))
    /\ pc' = "done"
    /\ UNCHANGED <<argvars, exc, linevars, res, res_hash, dropout, framevars, callvars,
                   ispcr_return, files, server_starts, qvars>>

\* --------------------------------------------------------- specifications
Pending == [exc |-> "pending", ret |-> CODE_NQ, rejected |-> << >>]

\* The qualifier's variables while main runs.
QualIdle == /\ qcand = None
            /\ qout = Pending

\* main's variables before main runs.
MainFresh == /\ pc = "start"
             /\ exc = ""
             /\ next_line = 1
             /\ line = ""
             /\ well_id = ""
             /\ location = ""
             /\ res = None
             /\ res_hash = << >>
             /\ dropout = << >>
             /\ output = << >>
             /\ search_range = InitialSearchRange
             /\ left_end = 0
             /\ chromosome = ""
             /\ primer3_output = None
             /\ ispcr_output = None
             /\ parsed_results = << >>
             /\ cand_idx = 1
             /\ acceptable = << >>
             /\ checked = << >>
             /\ design_calls = << >>
             /\ ispcr_calls = << >>
             /\ ispcr_return = << >>
             /\ files = {}
             /\ server_starts = 0
             /\ server_stops = 0

\* A run of main on a file of one line, with or without its arguments,
\* with or without a gfServer left over from an earlier run.
Init == /\ args_ok \in BOOLEAN
        /\ input \in OneLineFiles
        /\ server_up \in BOOLEAN
        /\ MainFresh
        /\ QualIdle

Next == \/ Usage
        \/ Start
        \/ ReadLine
        \/ Sentinel
        \/ EnterError
        \/ Design
        \/ Ispcr
        \/ QualifyOne
        \/ QualifyEnd
        \/ Return
        \/ Finish

Spec == Init /\ [][Next]_vars

\* A run of main on any input file, the tools limited to their outcomes
\* of the runs over whole files.
InitBatch == /\ args_ok \in BOOLEAN
             /\ input \in InputFiles
             /\ server_up \in BOOLEAN
             /\ MainFresh
             /\ QualIdle

NextBatch == \/ Usage
             \/ Start
             \/ ReadLine
             \/ Sentinel
             \/ EnterError
             \/ BatchDesign
             \/ BatchIspcr
             \/ QualifyOne
             \/ QualifyEnd
             \/ Return
             \/ Finish

SpecBatch == InitBatch /\ [][NextBatch]_vars

\* check_primer3_result on its own, applied to one candidate.
InitQual == /\ qcand \in QualCandidates
            /\ qout = Pending
            /\ args_ok = FALSE
            /\ input = << >>
            /\ server_up = FALSE
            /\ MainFresh

QualCheck == /\ qout = Pending
             /\ qout' = check_primer3_result(qcand)
             /\ UNCHANGED <<qcand, mainvars>>

NextQual == QualCheck

SpecQual == InitQual /\ [][NextQual]_vars

\* get_top_primers called on its own for one locus, with main's leeway and
\* a window that is main's, a later one of the table, one between two
\* entries of the table, the sentinel, or one past the sentinel.
StartWindows == {40, 45, 90, 100, 110}
StartLocations == {"chr1:1000-1020", "chrX"}

InitCtl == /\ args_ok = FALSE
           /\ input = << >>
           /\ server_up = TRUE
           /\ pc = "enter"
           /\ exc = ""
           /\ next_line = 1
           /\ line = ""
           /\ well_id = "A1"
           /\ location \in StartLocations
           /\ res = None
           /\ res_hash = << >>
           /\ dropout = << >>
           /\ output = << >>
           /\ search_range \in StartWindows
           /\ left_end = 0
           /\ chromosome = ""
           /\ primer3_output = None
           /\ ispcr_output = None
           /\ parsed_results = << >>
           /\ cand_idx = 1
           /\ acceptable = << >>
           /\ checked = << >>
           /\ design_calls = << >>
           /\ ispcr_calls = << >>
           /\ ispcr_return = << >>
           /\ files = {}
           /\ server_starts = 0
           /\ server_stops = 0
           /\ QualIdle

NextCtl == \/ Sentinel
           \/ EnterError
           \/ Design
           \/ Ispcr
           \/ QualifyOne
           \/ QualifyEnd

SpecCtl == InitCtl /\ [][NextCtl]_vars

\* ------------------------------------------------- properties of the qualifier
\* The qualifier was applied to the candidate.
Qualified == qout # Pending

\* The qualifier returned code.
Returned(code) == qout.exc = "" /\ qout.ret = code

\* The candidate's number of specificity matches.
MatchCount(parsed) == Get(parsed, "ispcr_count", 0)

\* The product's GC percentage is defined and is pct, is below pct, is
\* above pct.
GcDefined(parsed) == get_gc_pct(parsed.product).exc = ""
GcIs(parsed, pct) == GcDefined(parsed) /\ ~PctLess(get_gc_pct(parsed.product), pct)
                                       /\ ~PctGreater(get_gc_pct(parsed.product), pct)
GcBelow(parsed, pct) == GcDefined(parsed) /\ PctLess(get_gc_pct(parsed.product), pct)
GcAbove(parsed, pct) == GcDefined(parsed) /\ PctGreater(get_gc_pct(parsed.product), pct)

\* The longest homopolymer run of the two primers (both non-empty).
PolyMaxOf(parsed) == Max(get_poly_max(parsed.left_primer).val,
                         get_poly_max(parsed.right_primer).val)

\* Both melting temperatures are within 55 and 65 degrees, both primer
\* lengths within 18 and 25 bases.
TmsInRange(parsed) == /\ parsed.left_tm >= 550 /\ parsed.left_tm <= 650
                      /\ parsed.right_tm >= 550 /\ parsed.right_tm <= 650
LengthsInRange(parsed) == /\ Len(parsed.left_primer) >= 18 /\ Len(parsed.left_primer) <= 25
                          /\ Len(parsed.right_primer) >= 18 /\ Len(parsed.right_primer) <= 25

\* The complements of both 3' 4-mers exist.
ComplementsExist(parsed) == /\ last_4_left_com(parsed).exc = ""
                            /\ last_4_right_com(parsed).exc = ""

\* No complement of a 3' 4-mer, where it exists, occurs in the partner, in
\* the primer itself or in the tagged partner.
NoOverlap(parsed) ==
    LET l4 == last_4_left_com(parsed)
        r4 == last_4_right_com(parsed)
        left_primer  == parsed.left_primer
        right_primer == parsed.right_primer
    IN  /\ l4.exc = "" =>
             /\ ~Contains(Upper(Reverse(right_primer)), l4.val)
             /\ ~Contains(Upper(left_primer), l4.val)
             /\ ~Contains(Upper(Reverse(RIGHT_TAG \o right_primer)), l4.val)
        /\ r4.exc = "" =>
             /\ ~Contains(Upper(left_primer), r4.val)
             /\ ~Contains(Upper(Reverse(right_primer)), r4.val)
             /\ ~Contains(Upper(LEFT_TAG \o left_primer), r4.val)

\* No lowercase character among the last 10 of either primer.
NoMaskedEnd(parsed) ==
    /\ \A i \in 0..(Len(LastN(parsed.left_primer, 10)) - 1) :
          ~IsLower(CharAt(LastN(parsed.left_primer, 10), i))
    /\ \A i \in 0..(Len(LastN(parsed.right_primer, 10)) - 1) :
          ~IsLower(CharAt(LastN(parsed.right_primer, 10), i))

\* C4: check_primer3_result returns NOT_QUALIFIED for every candidate
\* whose match count is not exactly 1 (absent, 0, 2 or more), whatever its
\* other fields are.
C4_NotOneMatchIsNotQualified ==
    (Qualified /\ MatchCount(qcand) # 1) => Returned(CODE_NQ)

\* C4: a candidate with two matches and a base outside A/C/G/T in the
\* left primer's last four was returned NOT_QUALIFIED.
C4_Witness ==
    /\ Qualified
    /\ MatchCount(qcand) = 2
    /\ qcand.left_primer = "CTCCAGCGCGGTCAGTTCNA"
    /\ Returned(CODE_NQ)

\* What C5 asks of a candidate: one match, product GC of 50%, longest run
\* 2, both melting temperatures and both lengths in range, no self-binding
\* overlap.
C5_Premise(parsed) ==
    /\ MatchCount(parsed) = 1
    /\ GcIs(parsed, 50)
    /\ LengthsInRange(parsed)
    /\ PolyMaxOf(parsed) = 2
    /\ TmsInRange(parsed)
    /\ NoOverlap(parsed)

\* C5 as stated: every candidate with one match, product GC of 50%,
\* longest homopolymer run 2, both melting temperatures in [55,65], both
\* lengths in [18,25] and no self-binding 4-mer overlap is classified
\* IDEAL.
C5_AsStated ==
    (Qualified /\ C5_Premise(qcand)) => Returned(CODE_IDEAL)

\* C5: every such candidate that also has no lowercase character among the
\* last 10 of either primer is classified IDEAL when both 3' 4-mers are
\* made of A/C/G/T, and ends in KeyError when one of them is not.
C5_IdealWhenUnmaskedToo ==
    (Qualified /\ C5_Premise(qcand) /\ NoMaskedEnd(qcand)) =>
        IF ComplementsExist(qcand) THEN Returned(CODE_IDEAL)
        ELSE qout.exc = "KeyError"

\* C5: a candidate with both melting temperatures at a limit (55 and 65
\* degrees), lowercase only before the last 10 characters and a masked
\* product was classified IDEAL.
C5_Witness ==
    /\ Qualified
    /\ C5_Premise(qcand)
    /\ NoMaskedEnd(qcand)
    /\ qcand.left_primer = "ctcCAGCGCGGTCAGTTCCA"
    /\ qcand.left_tm = 550
    /\ qcand.right_tm = 550
    /\ Returned(CODE_IDEAL)

\* The candidate passes every rule but the one on the product's GC.
OtherwiseIdeal(parsed) ==
    /\ MatchCount(parsed) = 1
    /\ NoMaskedEnd(parsed)
    /\ NoOverlap(parsed)
    /\ LengthsInRange(parsed)
    /\ PolyMaxOf(parsed) <= 4
    /\ TmsInRange(parsed)

\* C6: a candidate whose product GC is below 25% or above 75% is
\* NOT_QUALIFIED whatever its other fields are; an otherwise ideal
\* candidate whose product GC is in [25,30) is ACCEPTABLE; 25% exactly is
\* not disqualified, and 30% or 75% exactly is not downgraded.
C6_GcBands ==
    Qualified =>
        /\ (GcBelow(qcand, 25) \/ GcAbove(qcand, 75)) => Returned(CODE_NQ)
        /\ (OtherwiseIdeal(qcand) /\ ~GcBelow(qcand, 25) /\ GcBelow(qcand, 30))
              => Returned(CODE_ACCEPTABLE)
        /\ (OtherwiseIdeal(qcand) /\ GcIs(qcand, 25)) => ~Returned(CODE_NQ)
        /\ (OtherwiseIdeal(qcand) /\ (GcIs(qcand, 30) \/ GcIs(qcand, 75)))
              => Returned(CODE_IDEAL)

\* C7: check_primer3_result returns one of IDEAL, ACCEPTABLE and
\* NOT_QUALIFIED for every parsed and annotated candidate, and never ends
\* in an error.
C7_Total ==
    Qualified => /\ qout.exc = ""
                 /\ qout.ret \in {CODE_IDEAL, CODE_ACCEPTABLE, CODE_NQ}

\* ------------------------------------------------ properties of the controller
\* The windows from 40 in steps of 10, n of them.
Windows(n) == [i \in 1..n |-> 40 + 10 * (i - 1)]

\* The class of a candidate: the code check_primer3_result returns for it.
IsIdeal(parsed) == /\ check_primer3_result(parsed).exc = ""
                   /\ check_primer3_result(parsed).ret = CODE_IDEAL
IsAcceptable(parsed) == /\ check_primer3_result(parsed).exc = ""
                        /\ check_primer3_result(parsed).ret = CODE_ACCEPTABLE
Qualifies(parsed) == IsIdeal(parsed) \/ IsAcceptable(parsed)

\* The candidate as the loop hands it to the qualifier and returns it.
InFrame(parsed) == SetKey(SetKey(parsed, "left_end", left_end), "chromosome", chromosome)

\* The first IDEAL candidate of the batch, the first ACCEPTABLE one.
FirstIdeal(batch) ==
    batch[CHOOSE i \in 1..Len(batch) :
            IsIdeal(batch[i]) /\ \A j \in 1..(i - 1) : ~IsIdeal(batch[j])]
FirstAcceptable(batch) ==
    batch[CHOOSE i \in 1..Len(batch) :
            IsAcceptable(batch[i]) /\ \A j \in 1..(i - 1) : ~IsAcceptable(batch[j])]

\* A design call is made in this step, a specificity search is made.
DesignCalled == design_calls' = Append(design_calls, search_range)
IspcrCalled == ispcr_calls' = Append(ispcr_calls, search_range)

\* This step is the recursive call of get_top_primers.
Widened == pc = "annotated" /\ pc' = "enter"

\* C1: entered with search_range 100, get_top_primers returns None at
\* once, without a design call, a specificity search or a temporary file
\* written; no run calls either tool with a window of 100.
C1_SentinelReturnsNone ==
    /\ [](/\ \A i \in 1..Len(design_calls) : design_calls[i] # 100
          /\ \A i \in 1..Len(ispcr_calls) : ispcr_calls[i] # 100)
    /\ [][(pc = "enter" /\ search_range = 100) =>
             /\ pc' = "returned"
             /\ res' = None
             /\ UNCHANGED <<callvars, files, framevars, ispcr_return, exc>>]_vars

\* C1: get_top_primers returned None from the call with window 100, after
\* design calls with the six windows before it.
C1_Witness ==
    /\ pc = "returned"
    /\ search_range = 100
    /\ res = None
    /\ design_calls = Windows(6)
    /\ ispcr_calls = Windows(6)

\* C2: the design calls for a locus are made with the windows 40, 50, 60,
\* ... in steps of 10, one call per window: the first call is made with
\* 40, each further call follows a round whose batch was qualified to the
\* end without an IDEAL or ACCEPTABLE candidate, and a winner is returned
\* from the first round that has one, so a run that finds its first
\* qualifying candidate at window 70 has made exactly the four calls 40,
\* 50, 60, 70.
C2_WindowsWidenByTen ==
    /\ [](design_calls = Windows(Len(design_calls)))
    /\ [](pc \in {"designed", "annotated"} =>
             design_calls = Windows(Len(design_calls)) /\
             design_calls[Len(design_calls)] = search_range)
    /\ []((pc = "returned" /\ res # None) =>
             /\ Qualifies(res)
             /\ design_calls = Windows((search_range - 40) \div 10 + 1)
             /\ search_range = 70 => design_calls = <<40, 50, 60, 70>>)
    /\ [][DesignCalled =>
             \/ search_range = 40 /\ design_calls = << >>
             \/ design_calls # << >> /\
                search_range = design_calls[Len(design_calls)] + 10]_vars
    /\ [][Widened =>
             /\ search_range' = search_range + 10
             /\ checked = [i \in 1..Len(parsed_results) |-> i]
             /\ \A i \in 1..Len(parsed_results) : ~Qualifies(parsed_results[i])]_vars
    /\ [][(pc = "annotated" /\ \E i \in 1..Len(parsed_results) :
                                  Qualifies(parsed_results[i])) => ~Widened]_vars

\* C2: a winner was returned from the round with window 70, after the
\* four design calls 40, 50, 60 and 70.
C2_Witness ==
    /\ pc = "returned"
    /\ res # None
    /\ search_range = 70
    /\ design_calls = <<40, 50, 60, 70>>

\* C3: a round whose batch has an IDEAL candidate returns the first IDEAL
\* candidate, even after an ACCEPTABLE one; a round without an IDEAL and
\* with an ACCEPTABLE candidate returns the first ACCEPTABLE candidate; a
\* NOT_QUALIFIED candidate is never returned.
C3_FirstIdealElseFirstAcceptable ==
    /\ []((pc = "returned" /\ res # None) => Qualifies(res))
    /\ [][(pc = "annotated" /\ pc' # "annotated") =>
             IF \E i \in 1..Len(parsed_results) : IsIdeal(parsed_results[i])
             THEN pc' = "returned" /\ res' = InFrame(FirstIdeal(parsed_results))
             ELSE IF \E i \in 1..Len(parsed_results) : IsAcceptable(parsed_results[i])
             THEN pc' = "returned" /\ res' = InFrame(FirstAcceptable(parsed_results))
             ELSE pc' # "returned"]_vars

\* The oracle's call gave an output that parse_primer3_results cannot read.
ParseFailed == /\ primer3_output # None
               /\ ~primer3_output.fail
               /\ parse_primer3_results(primer3_output.kv).exc # ""

\* C8: a design output that lacks an expected key is treated as a batch
\* without candidates: the locus does not fail, and the next round is
\* entered with the window 10 larger.
C8_ParseFailureWidens ==
    [][(DesignCalled /\ ParseFailed') =>
          /\ pc' # "aborted"
          /\ exc' = ""]_vars

\* A line that is no id,location pair, or whose location does not start
\* with chr.
Malformed(l) == \/ Len(Split(RStrip(l), ",")) # 2
                \/ Slice(Split(RStrip(l), ",")[2], 0, 3) # "chr"

\* C9: main skips every malformed line (no comma, more than one comma,
\* empty, or a location that does not start with chr) without calling
\* get_top_primers and goes on with the next line; a malformed line never
\* aborts the run.
C9_MalformedLinesSkipped ==
    [][(pc = "loop" /\ next_line <= Len(input) /\ Malformed(input[next_line])) =>
          /\ pc' = "loop"
          /\ next_line' = next_line + 1
          /\ exc' = ""
          /\ UNCHANGED <<callvars, resultvars>>]_vars

\* The tool called in this step failed.
DesignFailed == DesignCalled /\ primer3_output'.fail
IspcrFailed == IspcrCalled /\ (ispcr_output'.fail \/ ~server_up)

\* C10: a failing call of the design oracle or of the specificity search
\* ends get_top_primers with the tool's error, nothing runs after it, no
\* further call is made for the locus, and the recursive call with the
\* next window is made only after a round whose two tools succeeded and
\* whose batch was qualified to the end without a qualifying candidate.
C10_ToolFailureSurfaces ==
    /\ [][(DesignFailed \/ IspcrFailed) =>
             /\ pc' = "aborted"
             /\ exc' = "CalledProcessError"]_vars
    /\ [][pc # "aborted"]_vars
    /\ [](pc = "aborted" /\ exc = "CalledProcessError" =>
             \/ primer3_output # None /\ primer3_output.fail /\ ispcr_output = None
             \/ ispcr_output # None /\ ispcr_output.fail)
    /\ [][Widened =>
             /\ primer3_output # None /\ ~primer3_output.fail
             /\ ispcr_output # None /\ ~ispcr_output.fail
             /\ exc = ""
             /\ cand_idx > Len(parsed_results)
             /\ acceptable = << >>]_vars

\* C10: the design oracle failed in the second round of a locus and the
\* run ended with its error after two design calls and one search.
C10_Witness ==
    /\ pc = "aborted"
    /\ exc = "CalledProcessError"
    /\ primer3_output # None
    /\ primer3_output.fail
    /\ design_calls = <<40, 50>>
    /\ ispcr_calls = <<40>>

\* ------------------------------------------------ properties of a candidate
\* The product is the part of the template that starts at the left
\* primer's offset and has the product's size, as far as the template
\* goes, character by character; product_loc names the same offset and
\* size.
ProductIsSlice(parsed) ==
    LET left == parsed.left_primer_loc[1]
        size == parsed.product_size
        len  == Len(parsed.sequence)
    IN  /\ Len(parsed.product) = Max(Min(left + size, len) - Min(left, len), 0)
        /\ \A k \in 0..(Len(parsed.product) - 1) :
              CharAt(parsed.product, k) = CharAt(parsed.sequence, left + k)
        /\ parsed.product_loc = <<left, size>>

\* The fields of a candidate the product's place is made of.
PlaceOf(parsed) == <<parsed.product, parsed.sequence, parsed.left_primer_loc,
                     parsed.product_loc, parsed.product_size>>

\* C11: every candidate built by parse_primer3_results, and every winner
\* get_top_primers returns or main keeps, has product ==
\* sequence[left : left + product_size] with left the offset of the left
\* primer's location; the specificity search and the qualification change
\* neither the product, the template, the position nor the size of a
\* candidate.
C11_ProductIsTemplateSlice ==
    /\ [](/\ \A i \in 1..Len(parsed_results) : ProductIsSlice(parsed_results[i])
          /\ \A i \in 1..Len(acceptable) : ProductIsSlice(acceptable[i])
          /\ res # None => ProductIsSlice(res)
          /\ \A i \in 1..Len(res_hash) : ProductIsSlice(res_hash[i].val))
    /\ [][(pc \in {"designed", "annotated"} /\ Len(parsed_results') = Len(parsed_results)) =>
             \A i \in 1..Len(parsed_results) :
                PlaceOf(parsed_results'[i]) = PlaceOf(parsed_results[i])]_vars
    /\ [][(pc = "annotated" /\ pc' = "returned") =>
             \E i \in 1..Len(parsed_results) :
                PlaceOf(res') = PlaceOf(parsed_results[i])]_vars

\* C11: a winner that went through the specificity search and the
\* qualification was returned, its product the 20 bases of the template
\* from offset 2.
C11_Witness ==
    /\ pc = "returned"
    /\ res # None
    /\ res.ispcr_count = 1
    /\ res.left_primer_loc[1] = 2
    /\ res.product_size = 20
    /\ res.product = "GCGCGCGCGCATATATATAT"
    /\ ProductIsSlice(res)

\* ---------------------------------------- properties of the specificity search
\* The second space-delimited token of a line ("" when there is none).
SecondToken(l) == IF Len(Split(l, " ")) < 2 THEN "" ELSE Split(l, " ")[2]

\* The number of lines of the response that begin with '>' and carry i as
\* their second token.
MatchesOf(response, i) ==
    LET lines == Split(response, "\n")
    IN  Cardinality({n \in 1..Len(lines) :
                        /\ Len(lines[n]) > 0
                        /\ Head(lines[n]) = ">"
                        /\ SecondToken(lines[n]) = ToString(i)})

\* C12: when get_ispcr_results returns, the candidate at every index i of
\* the batch has as its ispcr_count the number of response lines that
\* begin with '>' and carry i as second token; a candidate no such line
\* names has no ispcr_count (read as 0); the other lines count for nobody;
\* no other field of a candidate and not the order of the batch is changed.
C12_CountsAreMatchLines ==
    [][(pc = "designed" /\ pc' = "annotated") =>
          /\ Len(parsed_results') = Len(parsed_results)
          /\ \A i \in 1..Len(parsed_results) :
                LET count == MatchesOf(ispcr_output'.response, i - 1)
                IN  /\ Get(parsed_results'[i], "ispcr_count", 0) = count
                    /\ parsed_results'[i] =
                          IF count = 0 THEN parsed_results[i]
                          ELSE SetKey(parsed_results[i], "ispcr_count", count)]_vars

\* C12: of a batch of two the first candidate was matched by two lines and
\* the second by one, among lines that are no match lines.
C12_Witness ==
    /\ pc = "annotated"
    /\ checked = << >>
    /\ Len(parsed_results) = 2
    /\ ispcr_output.response = MatchLines(0) \o AllMatched(2)
    /\ parsed_results[1].ispcr_count = 2
    /\ parsed_results[2].ispcr_count = 1

\* --------------------------------------------------- properties of main
\* The lines of the input file that pass main's validation.
ValidLines == {n \in 1..Len(input) : ~Malformed(input[n])}

\* C13: when main has finished, every line that passed validation is
\* accounted for once: a locus for which get_top_primers returned None
\* has one row (well id, location) in the drop-out report and none in the
\* output table, a locus with a winner one row in the output table and
\* none in the drop-out report, also when a line occurs more than once in
\* the input.
C13_EachLocusOnce ==
    /\ [][(pc = "returned" /\ res = None) =>
             /\ dropout' = Append(dropout, <<well_id, location>>)
             /\ res_hash' = res_hash]_vars
    /\ [][(pc = "returned" /\ res # None) =>
             /\ dropout' = dropout
             /\ Len(res_hash') = Len(res_hash) + 1]_vars
    /\ [](pc = "done" =>
             /\ Len(output) = Len(res_hash)
             /\ Len(output) + Len(dropout) = Cardinality(ValidLines))

\* C14: a run of main with its arguments starts the specificity server
\* once, before the first specificity search; a run that started it has
\* stopped it, once, when it ends, after the last search; no search is
\* made before the start or after the stop.
C14_ServerStartedAndStoppedOnce ==
    /\ [](server_starts <= 1)
    /\ [][IspcrCalled => (server_starts = 1 /\ server_up)]_vars
    /\ [][server_up' # server_up => ~IspcrCalled]_vars
    /\ [][(pc = "loop" /\ pc' = "done") =>
             (server_stops' = server_stops + 1 /\ ~server_up')]_vars
    /\ []((pc \in {"done", "aborted"} /\ server_starts = 1) => ~server_up)

\* A location string chrom:start-end taken apart again.
LocOf(str) ==
    LET parts == Split(str, ":")
        range == Split(parts[2], "-")
    IN  [chrom |-> parts[1], start |-> ParseInt(range[1]).val, end |-> ParseInt(range[2]).val]

\* C15: for every winner whose right primer position p and product size
\* satisfy product_size = p - left position + 1, the three locations of the
\* output row are chrom:(left_end + offset)-(left_end + offset + length):
\* the left primer from its offset, the right primer from p - length + 1,
\* the product from the left primer's offset; the left primer's location
\* starts where the product's starts and the right primer's ends where the
\* product's ends.
C15_OneCoordinateConvention ==
    pc = "done" =>
       \A i \in 1..Len(output) :
          LET r    == res_hash[i].val
              lp   == r.left_primer_loc[1]
              p    == r.right_primer_loc[1]
              left    == LocOf(output[i][3])
              right   == LocOf(output[i][5])
              product == LocOf(output[i][8])
          IN  r.product_size = p - lp + 1 =>
                 /\ left = [chrom |-> r.chromosome, start |-> r.left_end + lp,
                            end |-> r.left_end + lp + r.left_primer_loc[2]]
                 /\ right = [chrom |-> r.chromosome,
                             start |-> r.left_end + p - r.right_primer_loc[2] + 1,
                             end |-> r.left_end + p + 1]
                 /\ product = [chrom |-> r.chromosome, start |-> r.left_end + lp,
                               end |-> r.left_end + lp + r.product_size]
                 /\ left.start = product.start
                 /\ right.end = product.end

\* C15: the output row of a winner found with window 40 for chr1:1000-1020,
\* its 22-base product at offset 1 of the template and its two 20-base
\* primers at the product's two ends.
C15_Witness ==
    /\ pc = "done"
    /\ Len(output) = 1
    /\ res_hash[1].val.product_size = 22
    /\ output[1][3] = "chr1:911-931"
    /\ output[1][5] = "chr1:913-933"
    /\ output[1][8] = "chr1:911-933"

\* --------------------------------------- properties of the qualifier's rules
\* The longest run of one base in a non-empty sequence, case-insensitive:
\* the largest n for which n successive characters somewhere are equal.
LongestRun(sequence) ==
    LET up == Upper(sequence)
        IsRun(i, n) == \A k \in 0..(n - 1) : CharAt(up, i + k) = CharAt(up, i)
        runs == {n \in 1..Len(up) : \E i \in 0..(Len(up) - n) : IsRun(i, n)}
    IN  CHOOSE n \in runs : \A other \in runs : other <= n

\* The larger of the two primers' longest runs.
LongestRunOf(parsed) == Max(LongestRun(parsed.left_primer), LongestRun(parsed.right_primer))

\* No rule before the homopolymer rule disqualifies the candidate: one
\* match, no masked 3' end, no self-binding overlap, product GC within 25
\* and 75.
NotDisqualifiedBefore(parsed) ==
    /\ MatchCount(parsed) = 1
    /\ NoMaskedEnd(parsed)
    /\ NoOverlap(parsed)
    /\ GcDefined(parsed)
    /\ ~GcBelow(parsed, 25)
    /\ ~GcAbove(parsed, 75)

\* C16: with m the larger of the two primers' longest runs, a candidate
\* with m > 5 is NOT_QUALIFIED, also when the product's GC only downgraded
\* it; a candidate with m = 5 that no other rule disqualifies is
\* ACCEPTABLE; m <= 4 does not downgrade a candidate that is ideal by every
\* other rule.
C16_HomopolymerRule ==
    Qualified =>
        LET m == LongestRunOf(qcand)
        IN  /\ m > 5 => Returned(CODE_NQ)
            /\ (m = 5 /\ NotDisqualifiedBefore(qcand)) => Returned(CODE_ACCEPTABLE)
            /\ (m <= 4 /\ NotDisqualifiedBefore(qcand) /\ ~GcBelow(qcand, 30)
                  /\ TmsInRange(qcand) /\ LengthsInRange(qcand)) => Returned(CODE_IDEAL)

\* The candidate passes every rule before the melting temperature rule
\* without being disqualified: the self-binding checks are computed, no
\* rule up to the product's GC disqualifies, and the longest run is at
\* most 5.
PassesThroughPoly(parsed) ==
    /\ NotDisqualifiedBefore(parsed)
    /\ ComplementsExist(parsed)
    /\ PolyMaxOf(parsed) <= 5

\* C17: a candidate that passes the rules before them without
\* disqualification is ACCEPTABLE when a melting temperature is outside
\* [55,65] or a primer length outside [18,25]; with both temperatures and
\* both lengths within the limits, 55, 65, 18 and 25 included, these two
\* rules do not downgrade; a candidate an earlier rule downgraded is
\* ACCEPTABLE whatever the two rules find.
C17_TmAndLengthDowngradeOnly ==
    (Qualified /\ PassesThroughPoly(qcand)) =>
        /\ (~TmsInRange(qcand) \/ ~LengthsInRange(qcand)) => Returned(CODE_ACCEPTABLE)
        /\ (TmsInRange(qcand) /\ LengthsInRange(qcand)
              /\ ~GcBelow(qcand, 30) /\ PolyMaxOf(qcand) <= 4) => Returned(CODE_IDEAL)
        /\ (GcBelow(qcand, 30) \/ PolyMaxOf(qcand) = 5) => Returned(CODE_ACCEPTABLE)

\* C17: a candidate ideal by every other rule, its right primer of 17
\* bases and both melting temperatures at 55 degrees, was classified
\* ACCEPTABLE.
C17_Witness ==
    /\ Qualified
    /\ PassesThroughPoly(qcand)
    /\ GcIs(qcand, 50)
    /\ PolyMaxOf(qcand) = 2
    /\ qcand.left_tm = 550
    /\ qcand.right_tm = 550
    /\ Len(qcand.left_primer) = 20
    /\ Len(qcand.right_primer) = 17
    /\ Returned(CODE_ACCEPTABLE)

\* A lowercase letter.
Lowercase == {"a", "c", "g", "t", "n"}

\* The positions (from 0) of the lowercase characters of a primer, and
\* whether one of them is among its last 10 positions.
LowercaseAt(primer) == {i \in 0..(Len(primer) - 1) : CharAt(primer, i) \in Lowercase}
MaskedNearEnd(primer) == \E i \in LowercaseAt(primer) : i >= Len(primer) - 10

\* C18: a candidate with one match and a lowercase character among the
\* last 10 of the left or of the right primer (anywhere in a primer
\* shorter than 10) is NOT_QUALIFIED; lowercase characters before the
\* last 10 positions only do not disqualify a candidate that is ideal by
\* the other rules.
C18_LowComplexityRule ==
    (Qualified /\ MatchCount(qcand) = 1) =>
        /\ (MaskedNearEnd(qcand.left_primer) \/ MaskedNearEnd(qcand.right_primer))
              => Returned(CODE_NQ)
        /\ (/\ LowercaseAt(qcand.left_primer) # {}
            /\ ~MaskedNearEnd(qcand.left_primer)
            /\ ~MaskedNearEnd(qcand.right_primer)
            /\ PassesThroughPoly(qcand)
            /\ ~GcBelow(qcand, 30) /\ PolyMaxOf(qcand) <= 4
            /\ TmsInRange(qcand) /\ LengthsInRange(qcand)) => Returned(CODE_IDEAL)

\* C18: a candidate with one match whose left primer has its only
\* lowercase character at the 10th position from its end was returned
\* NOT_QUALIFIED.
C18_Witness ==
    /\ Qualified
    /\ MatchCount(qcand) = 1
    /\ qcand.left_primer = "CTCCAGCGCGgTCAGTTCCA"
    /\ LowercaseAt(qcand.left_primer) = {Len(qcand.left_primer) - 10}
    /\ ~MaskedNearEnd(qcand.right_primer)
    /\ Returned(CODE_NQ)

\* The 3' ends the self-binding checks look at, uppercased: the last 4
\* bases of the left primer, and the first 4 of the reversed right primer.
LeftEnd4(parsed) == LastN(Upper(parsed.left_primer), 4)
RightEnd4(parsed) == FirstN(Reverse(Upper(parsed.right_primer)), 4)

\* Two equally long sequences pair base by base (A with T, C with G).
BasePairs == {<<"A", "T">>, <<"T", "A">>, <<"C", "G">>, <<"G", "C">>}
PairsWith(a, b) ==
    /\ Len(a) = Len(b)
    /\ \A i \in 0..(Len(a) - 1) : <<CharAt(a, i), CharAt(b, i)>> \in BasePairs

\* The complement of end4 occurs in s: some window of s pairs with end4.
ComplementOccurs(s, end4) ==
    \E i \in 0..(Len(s) - Len(end4)) : PairsWith(SubSeq(s, i + 1, i + Len(end4)), end4)

\* One of the four overlaps of rules 3 and 4.
SelfBindingOverlap(parsed) ==
    LET left_up   == Upper(parsed.left_primer)
        right_rev == Upper(Reverse(parsed.right_primer))
    IN  \/ ComplementOccurs(right_rev, LeftEnd4(parsed))
        \/ ComplementOccurs(left_up, RightEnd4(parsed))
        \/ ComplementOccurs(left_up, LeftEnd4(parsed))
        \/ ComplementOccurs(right_rev, RightEnd4(parsed))

\* C19: a candidate with one match and no lowercase character among the
\* last 10 of either primer is NOT_QUALIFIED whenever the complement of
\* the left primer's 3' end occurs in the reversed right primer or in the
\* left primer, or the complement of the right primer's 3' end occurs in
\* the left primer or in the reversed right primer, whatever its product,
\* melting temperatures and lengths are.
C19_SelfBindingDisqualifies ==
    (/\ Qualified
     /\ MatchCount(qcand) = 1
     /\ ~MaskedNearEnd(qcand.left_primer)
     /\ ~MaskedNearEnd(qcand.right_primer)
     /\ SelfBindingOverlap(qcand)) => Returned(CODE_NQ)

\* The two tagged primers the adapter-tag checks read.
RightTagged(parsed) == Upper(RIGHT_TAG \o parsed.right_primer)
LeftTagged(parsed) == Upper(LEFT_TAG \o parsed.left_primer)

\* The overlap of rule 5 as the code tests it: the complement of the left
\* primer's 3' end in the reversed right tag + right primer, or the
\* complement of the right primer's 3' end in the left tag + left primer
\* read forward.
TagOverlap(parsed) ==
    \/ ComplementOccurs(Reverse(RightTagged(parsed)), LeftEnd4(parsed))
    \/ ComplementOccurs(LeftTagged(parsed), RightEnd4(parsed))

\* The overlap of rule 5 with the reversal on the LEFT_TAG check instead.
TagOverlapLeftReversed(parsed) ==
    \/ ComplementOccurs(RightTagged(parsed), LeftEnd4(parsed))
    \/ ComplementOccurs(Reverse(LeftTagged(parsed)), RightEnd4(parsed))

\* Both 3' ends are made of A, C, G and T.
EndsAreBases(parsed) ==
    \A i \in 0..3 : /\ CharAt(LeftEnd4(parsed), i) \in {"A", "C", "G", "T"}
                    /\ CharAt(RightEnd4(parsed), i) \in {"A", "C", "G", "T"}

\* C20 as stated: a candidate is NOT_QUALIFIED whenever the complement of
\* the left primer's 3' end occurs in the right tag + right primer read
\* forward, or the complement of the right primer's 3' end occurs in the
\* reversed left tag + left primer.
C20_AsStated ==
    (Qualified /\ TagOverlapLeftReversed(qcand)) => Returned(CODE_NQ)

\* C20, amended: the reversal is on the RIGHT_TAG check. A candidate in
\* which the complement of the left primer's 3' end occurs in the reversed
\* right tag + right primer, or the complement of the right primer's 3' end
\* occurs in the left tag + left primer read forward, is NOT_QUALIFIED;
\* the qualifier raises KeyError instead when the candidate has one match,
\* no lowercase character among the last 10 of a primer, and a 3' end with
\* a base outside A, C, G, T.
C20_TagRule ==
    (Qualified /\ TagOverlap(qcand)) =>
        IF /\ MatchCount(qcand) = 1
           /\ ~MaskedNearEnd(qcand.left_primer)
           /\ ~MaskedNearEnd(qcand.right_primer)
           /\ ~EndsAreBases(qcand)
        THEN qout.exc = "KeyError"
        ELSE Returned(CODE_NQ)

\* C20: a candidate that only the tag rule rejects (one match, no masked
\* end, no overlap with the partner or itself, product GC 50%, longest run
\* 2, melting temperatures and lengths in range), whose left 3' end
\* complement occurs in the reversed right tag, was returned NOT_QUALIFIED.
C20_Witness ==
    /\ Qualified
    /\ MatchCount(qcand) = 1
    /\ ~MaskedNearEnd(qcand.left_primer)
    /\ ~MaskedNearEnd(qcand.right_primer)
    /\ EndsAreBases(qcand)
    /\ ~SelfBindingOverlap(qcand)
    /\ ComplementOccurs(Reverse(RightTagged(qcand)), LeftEnd4(qcand))
    /\ ~ComplementOccurs(LeftTagged(qcand), RightEnd4(qcand))
    /\ GcIs(qcand, 50) /\ PolyMaxOf(qcand) = 2
    /\ TmsInRange(qcand) /\ LengthsInRange(qcand)
    /\ Returned(CODE_NQ)

\* The sequence 1, 2, ..., n.
UpTo(n) == [i \in 1..n |-> i]

\* This step returns a winner from the loop or after it, or widens; the
\* candidates qualified in the round by the end of such a step.
PicksOrWidens == pc = "annotated" /\ pc' \in {"returned", "enter"}
QualifiedByThen == IF Widened THEN checked ELSE checked'

\* C21 as stated: when the controller picks a winner or widens the window,
\* every candidate of the round's batch has been passed to
\* check_primer3_result exactly once.
C21_AsStated ==
    [][PicksOrWidens => QualifiedByThen = UpTo(Len(parsed_results))]_vars

\* C21, amended: in a round the design call comes first, the specificity
\* search second and qualification after both; candidates are qualified
\* in the batch's order, each at most once, and every one that is
\* qualified with a match count other than 1 is appended to ispcr_return.
\* An IDEAL candidate is returned in the step that qualifies it, the
\* candidates after it left unqualified; an ACCEPTABLE winner is returned,
\* and the window widened, only after every candidate of the batch has
\* been qualified once.
C21_QualifiesUpToFirstIdeal ==
    /\ [](/\ Len(ispcr_calls) <= Len(design_calls)
          /\ \A i \in 1..Len(ispcr_calls) : ispcr_calls[i] = design_calls[i])
    /\ [](checked # << >> =>
            /\ Len(ispcr_calls) = Len(design_calls)
            /\ design_calls[Len(design_calls)] = search_range
            /\ ispcr_calls[Len(ispcr_calls)] = search_range)
    /\ [](checked = UpTo(Len(checked)) /\ Len(checked) <= Len(parsed_results))
    /\ [][(checked' # checked /\ checked' # << >>) =>
             LET k      == Len(checked) + 1
                 parsed == parsed_results[k]
                 count  == Get(parsed, "ispcr_count", 0)
             IN  /\ pc = "annotated"
                 /\ checked' = Append(checked, k)
                 /\ ispcr_return' = ispcr_return \o
                       (IF count # 1
                        THEN << <<count, parsed.left_primer, parsed.right_primer>> >>
                        ELSE << >>)]_vars
    /\ [][(PicksOrWidens /\ ~Widened) =>
             IF checked' # checked
             THEN /\ res' = parsed_results'[Len(checked')]
                  /\ IsIdeal(res')
             ELSE /\ checked = UpTo(Len(parsed_results))
                  /\ IsAcceptable(res')
                  /\ \A j \in 1..Len(parsed_results) : ~IsIdeal(parsed_results[j])]_vars
    /\ [][Widened =>
             /\ checked = UpTo(Len(parsed_results))
             /\ \A j \in 1..Len(parsed_results) : ~Qualifies(parsed_results[j])]_vars

\* C21: a round of two candidates returned its first, IDEAL, candidate
\* without qualifying the second, whose match count is not 1 and which
\* the diagnostic list does not hold.
C21_Witness ==
    /\ pc = "returned"
    /\ Len(parsed_results) = 2
    /\ checked = <<1>>
    /\ res = parsed_results[1]
    /\ Get(parsed_results[2], "ispcr_count", 0) # 1
    /\ ispcr_return = << >>

\* The window the run of get_top_primers was started with: the first
\* design call's, and before any design call the current one.
StartWindow == IF design_calls = << >> THEN search_range ELSE design_calls[1]

\* No call of a tool made in the run has failed.
CallsReturned == /\ primer3_output # None => ~primer3_output.fail
                 /\ ispcr_output # None => ~ispcr_output.fail

\* The run has ended: with a winner, without one, with an exception.
Done == pc = "returned" /\ res # None
Exhausted == pc = "returned" /\ res = None
Failed == pc = "aborted"

\* C22: a run of get_top_primers started with window 40 whose calls of
\* the tools return does not end in an exception (it ends in Done or
\* Exhausted); it makes at most 6 design calls, each at a window among 40,
\* 50, 60, 70, 80, 90, which all have a settings file; and a run entered
\* with a window that is neither one of these nor 100 ends with an error
\* in its first step, before any call of a tool.
C22_TerminatesDoneOrExhausted ==
    /\ []((StartWindow = 40 /\ CallsReturned) => ~Failed)
    /\ [](StartWindow = 40 =>
            /\ Len(design_calls) <= 6
            /\ \A i \in 1..Len(design_calls) :
                  /\ design_calls[i] \in {40, 50, 60, 70, 80, 90}
                  /\ design_calls[i] \in DOMAIN primer3_settings_file_dict)
    /\ [][(pc = "enter" /\ search_range \notin {40, 50, 60, 70, 80, 90, 100}) =>
             /\ Failed'
             /\ exc' # ""
             /\ design_calls' = << >>
             /\ ispcr_calls' = << >>
             /\ files' = {}]_vars

====
